---- MODULE Spec2Model ----
(***************************************************************************)
(* Redshift MCP server: the read-only SQL gate of execute_sql_tool          *)
(* (validate_sql, check_for_suspicious_sql), the catalog tools that build   *)
(* their query from a template, and the calls they make to                  *)
(* RedshiftDB.run_query.                                                    *)
(*                                                                         *)
(* SQL text is a sequence of lexemes.  A lexeme is one of                   *)
(*   "nl"    a line break                                                   *)
(*   "sp"    a space                                                        *)
(*   "semi"  ;                                                              *)
(*   "dd"    --   (opens a single-line comment that runs to the line end)   *)
(*   "mo"    /*  and  "mc"  */                                              *)
(*   "sl"    /   and  "st"  *   on their own                                *)
(*   "END"   one of END | COMMIT | ROLLBACK | ABORT, in any letter case     *)
(*   "WORK"  one of WORK | TRANSACTION                                      *)
(*   "x"     a stray closing parenthesis                                    *)
(*   "S"     the text of one well-formed statement; which statement is the  *)
(*           request's stmt (every "S" of one text is the same statement)   *)
(***************************************************************************)
EXTENDS Integers, Sequences, FiniteSets, TLC

VARIABLES
    tool,       \* the tool the request calls
    sql,        \* execute_sql_tool: the sql argument
    stmt,       \* the statement the lexeme "S" of sql stands for
    names,      \* catalog tools: db_name, schema_name, table_name
    pc,         \* "start" | "awaiting" (suspended in await db.run_query) | "done"
    verdict,    \* execute_sql_tool: what validate_sql(sql) returned or raised
    calls,      \* the calls the handler has made, in order
    ctxErrors,  \* the messages reported through ctx.error, in order
    outcome,    \* how the request ended
    input,      \* the argument of a utils function that is called on its own
    output,     \* what that call returned or raised
    cache,      \* cached_func.cache: key -> the value stored and its expiry
    now,        \* the time
    computed,   \* how often the decorated function has been invoked
    callers,    \* the calls of the wrapper in progress, one per caller
    refreshLog, \* per key, the values stored by force-refresh calls, in order
    instance,   \* RedshiftDB._instance: 0 (None) or the number of the object
    executor,   \* RedshiftDB._executor: 0 (None) or 1 (a ThreadPoolExecutor)
    objects,    \* how many RedshiftDB objects have been constructed
    direct,     \* how many of them by a direct RedshiftDB(engine, host)
    returned,   \* what the last connect() or RedshiftDB(...) gave its caller
    pool,       \* the queries running and waiting on RedshiftDB._executor
    defaultPool \* the queries running and waiting on the loop's default executor

requestVars == <<tool, sql, stmt, names, pc, verdict, calls, ctxErrors, outcome>>

pureVars == <<input, output>>

cacheVars == <<cache, now, computed, callers, refreshLog>>

dbVars == <<instance, executor, objects, direct, returned, pool, defaultPool>>

vars == <<requestVars, pureVars, cacheVars, dbVars>>

\* Longest sql text of a request.
MaxLen == 4

-----------------------------------------------------------------------------
(* sqlglot expression trees.  kids[1] is the node's `this` argument when it *)
(* has one; verb is a Command's `this` (the command word as written).       *)

Node(type, kids) == [type |-> type, verb |-> "", kids |-> kids]

CommandNode(verb) == [type |-> "Command", verb |-> verb, kids |-> <<>>]

Leaf(type) == Node(type, <<>>)

\* SELECT a FROM t LIMIT 1
PlainSelect == Node("Select", <<Leaf("Column"), Node("From", <<Leaf("Table")>>), Leaf("Limit")>>)

\* DELETE FROM users WHERE id = 1 RETURNING *
DeleteTree == Node("Delete", <<Leaf("Table"), Leaf("Where")>>)

\* WITH <alias> AS (<body>) <select>: the Select owns With, With owns the CTE.
WithCte(body) ==
    Node("Select", <<Leaf("Column"), Node("From", <<Leaf("Table")>>),
                     Node("With", <<Node("CTE", <<body, Leaf("TableAlias")>>)>>),
                     Leaf("Limit")>>)

\* SELECT a FROM (<body>) AS t LIMIT 1
FromSubquery(body) ==
    Node("Select", <<Leaf("Column"),
                     Node("From", <<Node("Subquery", <<body, Leaf("TableAlias")>>)>>),
                     Leaf("Limit")>>)

\* The statements a text's "S" can stand for, and the tree sqlglot builds.
StmtTree(s) ==
    CASE s = "Select"              -> PlainSelect
      [] s = "SelectCteSelect"     -> WithCte(PlainSelect)
      [] s = "SelectSubValues"     -> FromSubquery(Node("Values", <<Leaf("Tuple")>>))
      [] s = "SelectCteDelete"     -> WithCte(DeleteTree)
      [] s = "SelectCteCteDelete"  -> WithCte(WithCte(DeleteTree))
      [] s = "SelectSubUnion"      -> FromSubquery(Node("Union", <<PlainSelect, PlainSelect>>))
      [] s = "Union"               -> Node("Union", <<PlainSelect, PlainSelect>>)
      [] s = "Delete"              -> DeleteTree
      [] s = "Describe"            -> Node("Describe", <<Leaf("Table")>>)
      [] s = "explain"             -> CommandNode("eXpLaIn")
      [] s = "SHOW"                -> CommandNode("SHOW")
      [] s = "VACUUM"              -> CommandNode("VACUUM")

Stmts ==
    {"Select", "SelectCteSelect", "SelectSubValues", "SelectCteDelete",
     "SelectCteCteDelete", "SelectSubUnion", "Union", "Delete", "Describe",
     "explain", "SHOW", "VACUUM"}

\* str.upper() on the command words of the model.
upper(w) ==
    CASE w = "eXpLaIn" -> "EXPLAIN"
      [] OTHER         -> w

\* Expression.walk(): the node and every node below it, breadth first.
RECURSIVE walkQueue(_, _)
walkQueue(queue, seen) ==
    IF queue = <<>> THEN seen
    ELSE walkQueue(Tail(queue) \o Head(queue).kids, Append(seen, Head(queue)))

walk(exp) == walkQueue(<<exp>>, <<>>)

\* utils.is_read_only_expression
\* Mutant: the loop forgets the Subquery nodes.
bodies_read_only_cte_only(nodes) ==
    \A i \in 1..Len(nodes) :
        nodes[i].type = "CTE" => nodes[i].kids[1].type \in {"Select", "Values"}

\* the loop over exp.walk(): no CTE and no Subquery whose body is neither a
\* Select nor a Values
bodies_read_only(nodes) ==
    \A i \in 1..Len(nodes) :
        nodes[i].type \in {"CTE", "Subquery"}
            => nodes[i].kids[1].type \in {"Select", "Values"}

\* Mutant: the command word is compared as written, without upper().
top_level_check_case_sensitive(exp) ==
    \/ exp.type \in {"Select", "Describe"}
    \/ /\ exp.type = "Command"
       /\ exp.verb # ""
       /\ exp.verb \in {"EXPLAIN", "SHOW"}

top_level_check(exp) ==
    \/ exp.type \in {"Select", "Describe"}
    \/ /\ exp.type = "Command"
       /\ exp.verb # ""
       /\ upper(exp.verb) \in {"EXPLAIN", "SHOW"}

is_read_only_expression(exp) ==
    IF ~top_level_check(exp) THEN FALSE ELSE bodies_read_only(walk(exp))

-----------------------------------------------------------------------------
(* sqlglot.parse(sql, read="redshift"): the tokenizer drops whitespace and  *)
(* comments, remembering on each token whether comments were attached to    *)
(* it; the parser cuts the tokens into chunks at the semicolons and parses  *)
(* every chunk.                                                             *)

Whitespace == {"nl", "sp"}

\* The position of the line break that ends the line of position i, or
\* Len(text) + 1 on the last line.
RECURSIVE lineEnd(_, _)
lineEnd(text, i) ==
    IF i > Len(text) \/ text[i] = "nl" THEN i ELSE lineEnd(text, i + 1)

\* The position of the */ that closes the comment opened before position i
\* at nesting depth `depth`, or 0 when the text ends first.
RECURSIVE commentClose(_, _, _)
commentClose(text, i, depth) ==
    IF i > Len(text) THEN 0
    ELSE IF text[i] = "mc"
         THEN IF depth = 1 THEN i ELSE commentClose(text, i + 1, depth - 1)
         ELSE IF text[i] = "mo" THEN commentClose(text, i + 1, depth + 1)
              ELSE commentClose(text, i + 1, depth)

\* The number of line breaks in text[from..to].
lineBreaks(text, from, to) ==
    Cardinality({k \in from..to : k <= Len(text) /\ text[k] = "nl"})

markLast(toks) == [toks EXCEPT ![Len(toks)].c = TRUE]

\* The last position of the comment that starts at position i: a single-line
\* comment ends before the line break, a multi-line comment at the */ that
\* closes it, or at the end of the text when nothing closes it.
closeOrEnd(text, close) == IF close = 0 THEN Len(text) ELSE close

commentLast(text, i) ==
    IF text[i] = "dd" THEN lineEnd(text, i) - 1
    ELSE closeOrEnd(text, commentClose(text, i + 1, 1))

\* Tokenizer._add: a semicolon hands the pending comments to the token before
\* it; any other token takes them.
addToken(toks, lexeme, pending) ==
    IF lexeme = "semi" /\ pending /\ toks # <<>>
    THEN Append(markLast(toks), [k |-> lexeme, c |-> FALSE])
    ELSE Append(toks, [k |-> lexeme, c |-> pending])

\* Tokenizer._scan with _scan_comment and _add.  toks: the tokens so far;
\* pending: comments read and not yet attached; prevLine: the line of the
\* last token (_prev_token_line); line: the current line.
RECURSIVE scan(_, _, _, _, _, _)
RECURSIVE scanComment(_, _, _, _, _, _, _)
scan(text, i, toks, pending, prevLine, line) ==
    IF i > Len(text)
    THEN IF toks # <<>> /\ pending THEN markLast(toks) ELSE toks
    ELSE IF text[i] \in Whitespace
    THEN scan(text, i + 1, toks, pending, prevLine, line + lineBreaks(text, i, i))
    ELSE IF text[i] \in {"dd", "mo"}
    THEN scanComment(text, i, commentLast(text, i), toks, pending, prevLine, line)
    ELSE scan(text, i + 1, addToken(toks, text[i], pending), FALSE, line, line)

\* Tokenizer._scan_comment: a comment that starts on the line of the last
\* token is attached to that token, any other waits for the next token.
scanComment(text, i, last, toks, pending, prevLine, line) ==
    IF line = prevLine
    THEN scan(text, last + 1, markLast(toks), FALSE,
              line + lineBreaks(text, i, last), line + lineBreaks(text, i, last))
    ELSE scan(text, last + 1, toks, TRUE, prevLine, line + lineBreaks(text, i, last))

tokenize(text) == scan(text, 1, <<>>, FALSE, -1, 1)

\* Parser._parse: the chunks.  A semicolon that carries comments is a chunk
\* of its own; a semicolon that is not the last token opens a new chunk.
ownChunk(chunks, tok) == IF tok.c THEN Append(chunks, <<tok>>) ELSE chunks

newChunk(chunks, more) == IF more THEN Append(chunks, <<>>) ELSE chunks

RECURSIVE chunkTokens(_, _, _)
chunkTokens(toks, i, chunks) ==
    IF i > Len(toks) THEN chunks
    ELSE IF toks[i].k = "semi"
    THEN chunkTokens(toks, i + 1, newChunk(ownChunk(chunks, toks[i]), i < Len(toks)))
    ELSE chunkTokens(toks, i + 1,
                     [chunks EXCEPT ![Len(chunks)] = Append(@, toks[i])])

chunksOf(text) == chunkTokens(tokenize(text), 1, << <<>> >>)

NoneNode == Leaf("None")

ParseErrorNode == Leaf("ParseError")

\* Parser._parse_statement on one chunk, and the check that the statement
\* used every token of its chunk.  A command word (EXPLAIN, SHOW, VACUUM)
\* takes the rest of its statement as one string.
parseChunk(chunk, s) ==
    IF chunk = <<>> THEN NoneNode
    ELSE IF chunk[1].k = "semi" THEN Leaf("Semicolon")
    ELSE IF chunk[1].k = "S" /\ StmtTree(s).type = "Command" THEN StmtTree(s)
    ELSE IF Len(chunk) = 1 /\ chunk[1].k = "S" THEN StmtTree(s)
    ELSE IF chunk[1].k = "END" /\ Len(chunk) = 1 THEN Leaf("Commit")
    ELSE IF Len(chunk) = 2 /\ chunk[1].k = "END" /\ chunk[2].k = "WORK" THEN Leaf("Commit")
    ELSE IF Len(chunk) = 1 /\ chunk[1].k = "WORK" THEN Leaf("Column")
    ELSE ParseErrorNode

\* sqlglot.parse: the list of parsed statements, or <<ParseErrorNode>> for
\* the ParseError it raises when a chunk does not parse.
parseChunks(chunks, s) == [i \in 1..Len(chunks) |-> parseChunk(chunks[i], s)]

errorOr(exps) ==
    IF \E i \in 1..Len(exps) : exps[i] = ParseErrorNode
    THEN <<ParseErrorNode>>
    ELSE exps

parse(text, s) == errorOr(parseChunks(chunksOf(text), s))

parseRaises(text, s) == parse(text, s) = <<ParseErrorNode>>

-----------------------------------------------------------------------------
(* utils.validate_sql                                                       *)

\* str.strip()
RECURSIVE lstrip(_)
lstrip(text) ==
    IF text # <<>> /\ Head(text) \in Whitespace THEN lstrip(Tail(text)) ELSE text

RECURSIVE rstrip(_)
rstrip(text) ==
    IF text # <<>> /\ text[Len(text)] \in Whitespace
    THEN rstrip(SubSeq(text, 1, Len(text) - 1))
    ELSE text

strip(text) == rstrip(lstrip(text))

EmptyMsg == <<"SQL statement cannot be empty or whitespace.">>

OnlyOneMsg == <<"Only one SQL statement is allowed at a time.">>

ReadOnlyMsg == <<"This is a read-only SQL statement.">>

NotValidMsg ==
    "Not a valid SQL statement. Only SELECT, DESCRIBE, SHOW and EXPLAIN statements are allowed.\nInvalid SQL statement: "

Returned(is_read_only, message) ==
    [raised |-> "", is_read_only |-> is_read_only, message |-> message]

Raised(exception) ==
    [raised |-> exception, is_read_only |-> FALSE, message |-> <<>>]

\* validate_sql has not been called.
NoVerdict == Raised("not called")

\* What validate_sql(text) does: the tuple it returns, or the exception of
\* sqlglot.parse that it lets through.
\* Mutant: the message echoes sql.strip() instead of sql.
validate_parsed_stripped(text, processed_sql) ==
    IF processed_sql = <<ParseErrorNode>> THEN Raised("ParseError")
    ELSE IF Len(processed_sql) > 1 THEN Returned(FALSE, OnlyOneMsg)
    ELSE IF \/ processed_sql[1] = NoneNode
            \/ ~is_read_only_expression(processed_sql[1])
         THEN Returned(FALSE, <<NotValidMsg, strip(text)>>)
         ELSE Returned(TRUE, ReadOnlyMsg)

\* Mutant: the first statement is classified before the statements are counted.
validate_parsed_read_only_first(text, processed_sql) ==
    IF processed_sql = <<ParseErrorNode>> THEN Raised("ParseError")
    ELSE IF \/ processed_sql[1] = NoneNode
            \/ ~is_read_only_expression(processed_sql[1])
         THEN Returned(FALSE, <<NotValidMsg, text>>)
         ELSE IF Len(processed_sql) > 1 THEN Returned(FALSE, OnlyOneMsg)
         ELSE Returned(TRUE, ReadOnlyMsg)

\* validate_sql from the line after sqlglot.parse
validate_parsed(text, processed_sql) ==
    IF processed_sql = <<ParseErrorNode>> THEN Raised("ParseError")
    ELSE IF Len(processed_sql) > 1 THEN Returned(FALSE, OnlyOneMsg)
    ELSE IF \/ processed_sql[1] = NoneNode
            \/ ~is_read_only_expression(processed_sql[1])
         THEN Returned(FALSE, <<NotValidMsg, text>>)
         ELSE Returned(TRUE, ReadOnlyMsg)

\* Mutant: the blank check tests sql, not sql.strip().
validate_sql_no_strip(text, s) ==
    IF text = <<>> THEN Returned(FALSE, EmptyMsg)
    ELSE validate_parsed(text, parse(text, s))

validate_sql(text, s) ==
    IF strip(text) = <<>> THEN Returned(FALSE, EmptyMsg)
    ELSE validate_parsed(text, parse(text, s))

-----------------------------------------------------------------------------
(* constants.SUSPICIOUS_QUERY_REGEXP, read on lexemes:                      *)
(*   (?im)(^|;) sp* (END|COMMIT|ROLLBACK|ABORT) (sp+ (WORK|TRANSACTION))? sp* ; *)

\* The characters of a text: /* and */ are two characters each, every other
\* lexeme behaves in the pattern as one character that is neither / nor *.
lexemeChars(lexeme) ==
    CASE lexeme = "mo" -> <<"sl", "st">>
      [] lexeme = "mc" -> <<"st", "sl">>
      [] OTHER         -> <<lexeme>>

RECURSIVE chars(_)
chars(text) ==
    IF text = <<>> THEN <<>> ELSE lexemeChars(Head(text)) \o chars(Tail(text))

pairAt(c, i, first, second) == i < Len(c) /\ c[i] = first /\ c[i + 1] = second

\* re_mlc: (?P<mlc>/\*([^/*]|/[^*]|\*[^/]|(?P>mlc))*\*/).  The positions a
\* match that starts at position i can end before; {} when none starts there.
RECURSIVE re_mlc(_, _)
RECURSIVE mlcStep(_, _)
RECURSIVE mlcBody(_, _)
re_mlc(c, i) ==
    IF pairAt(c, i, "sl", "st")
    THEN {j + 2 : j \in {k \in mlcBody(c, i + 2) : pairAt(c, k, "st", "sl")}}
    ELSE {}

\* one repetition of the group inside the comment
mlcStep(c, i) ==
    (IF i <= Len(c) /\ c[i] \notin {"sl", "st"} THEN {i + 1} ELSE {})
    \cup (IF i < Len(c) /\ c[i] = "sl" /\ c[i + 1] # "st" THEN {i + 2} ELSE {})
    \cup (IF i < Len(c) /\ c[i] = "st" /\ c[i + 1] # "sl" THEN {i + 2} ELSE {})
    \cup re_mlc(c, i)

mlcBody(c, i) == {i} \cup UNION {mlcBody(c, k) : k \in mlcStep(c, i)}

\* re_slc, re_mlc, re_sp: the positions one separator that starts at position
\* i can end before.  A single-line comment runs to the end of its line.
re_sp(c, i) ==
    IF i > Len(c) THEN {}
    ELSE IF c[i] \in Whitespace \/ c[i] = "semi" THEN {i + 1}
    ELSE IF c[i] = "dd" THEN {lineEnd(c, i)}
    ELSE re_mlc(c, i)

\* sp*: the positions a run of separators from position i can end before.
RECURSIVE sepRun(_, _)
sepRun(c, i) == {i} \cup UNION {sepRun(c, k) : k \in re_sp(c, i)}

\* sp+
sepRun1(c, i) == UNION {sepRun(c, k) : k \in re_sp(c, i)}

\* (^|;) under (?m): the start of the text, the start of a line, or just
\* after a semicolon.
boundaries(c) ==
    {1} \cup {i + 1 : i \in {k \in 1..Len(c) : c[k] \in {"nl", "semi"}}}

lexemeAt(c, i, lexeme) == i <= Len(c) /\ c[i] = lexeme

\* sp* ;
finalSemicolon(c, i) == \E r \in sepRun(c, i) : lexemeAt(c, r, "semi")

\* the pattern has a match in the characters c
searchChars(c) ==
    \E b \in boundaries(c) : \E p \in sepRun(c, b) :
        /\ lexemeAt(c, p, "END")
        /\ \/ finalSemicolon(c, p + 1)
           \/ \E w \in sepRun1(c, p + 1) :
                 lexemeAt(c, w, "WORK") /\ finalSemicolon(c, w + 1)

\* regex.compile(SUSPICIOUS_QUERY_REGEXP).search(sql) finds a match
SUSPICIOUS_QUERY_REGEXP(text) == searchChars(chars(text))

SuspiciousMsg == "SQL contains suspicious patterns, execution rejected: "

\* utils.check_for_suspicious_sql: raises Exception on a match, else True.
check_for_suspicious_sql(text) ==
    IF SUSPICIOUS_QUERY_REGEXP(text)
    THEN [raised |-> "Exception", message |-> <<SuspiciousMsg, text>>]
    ELSE [raised |-> "", message |-> <<>>]

-----------------------------------------------------------------------------
(* utils.quote_sql_literal: literal(value) compiled by SQLAlchemy for       *)
(* postgresql.dialect() with literal_binds.  Characters of a string: "a" a  *)
(* letter, "q" a single quote, "b" a backslash, "p" a percent sign.  A      *)
(* value is its Python type and, for str and bytes, its characters.         *)

Chars == {"a", "q", "b", "p"}

\* Longest db_name, schema_name or table_name of a catalog request.
MaxName == 1

Value(kind, cs) == [kind |-> kind, chars |-> cs]

Str(cs) == Value("str", cs)

\* str.replace(c, c + c)
double(c, doubled) == IF c = doubled THEN <<c, c>> ELSE <<c>>

RECURSIVE replace(_, _)
replace(cs, doubled) ==
    IF cs = <<>> THEN <<>>
    ELSE double(Head(cs), doubled) \o replace(Tail(cs), doubled)

\* literal(value): the SQL type inferred from the Python type of the value;
\* a type SQLAlchemy does not know gets NullType.
resolve_value_to_type(value) ==
    CASE value.kind = "str"      -> "String"
      [] value.kind = "int"      -> "Integer"
      [] value.kind = "float"    -> "Float"
      [] value.kind = "bool"     -> "Boolean"
      [] value.kind = "datetime" -> "DateTime"
      [] value.kind = "date"     -> "Date"
      [] value.kind = "time"     -> "Time"
      [] value.kind = "bytes"    -> "LargeBinary"
      [] OTHER                   -> "NullType"

Rendered(text) == [raised |-> "", text |-> text]

CompileError == [raised |-> "CompileError", text |-> <<>>]

\* Mutant: a value without a literal renderer is rendered as str(value).
literal_processor_str_fallback(value, type) ==
    CASE type = "String" ->
             Rendered(<<"q">> \o replace(replace(value.chars, "q"), "p") \o <<"q">>)
      [] type = "LargeBinary" ->
             Rendered(<<"q">> \o replace(value.chars, "q") \o <<"q">>)
      [] type \in {"Integer", "Float"} -> Rendered(<<"digits">>)
      [] type = "Boolean" -> Rendered(<<"true">>)
      [] type \in {"DateTime", "Date", "Time"} -> Rendered(<<"q", "digits", "q">>)
      [] OTHER -> Rendered(value.chars)

\* The literal processor of the type: String doubles ' and, for a pyformat
\* driver, %; LargeBinary doubles '; NullType has none.
literal_processor(value, type) ==
    CASE type = "String" ->
             Rendered(<<"q">> \o replace(replace(value.chars, "q"), "p") \o <<"q">>)
      [] type = "LargeBinary" ->
             Rendered(<<"q">> \o replace(value.chars, "q") \o <<"q">>)
      [] type \in {"Integer", "Float"} -> Rendered(<<"digits">>)
      [] type = "Boolean" -> Rendered(<<"true">>)
      [] type \in {"DateTime", "Date", "Time"} -> Rendered(<<"q", "digits", "q">>)
      [] OTHER -> CompileError

\* PGCompiler.render_literal_value: None is NULL; the processed text with its
\* backslashes doubled (the dialect's _backslash_escapes is on before any
\* connection is made).
backslashesDoubled(processed) ==
    IF processed.raised # "" THEN processed
    ELSE Rendered(replace(processed.text, "b"))

render_literal_value(value, type) ==
    IF value.kind = "NoneType" THEN Rendered(<<"NULL">>)
    ELSE backslashesDoubled(literal_processor(value, type))

quote_sql_literal(value) ==
    render_literal_value(value, resolve_value_to_type(value))

-----------------------------------------------------------------------------
(* The requests.                                                            *)

Lexemes == {"nl", "semi", "dd", "mo", "mc", "END", "x", "S"}

SeqsUpTo(S, n) == UNION {[1..k -> S] : k \in 0..n}

\* A transaction word that directly follows a statement in its chunk is read
\* by sqlglot as an alias or not depending on the statement's last clause;
\* such texts are left out of the requests.
aliasIn(chunks, s) ==
    \E i \in 1..Len(chunks) :
        /\ Len(chunks[i]) >= 2
        /\ chunks[i][1].k = "S"
        /\ StmtTree(s).type # "Command"
        /\ chunks[i][2].k \in {"END", "WORK"}

aliasPosition(text, s) == aliasIn(chunksOf(text), s)

hasStatement(text) == \E i \in 1..Len(text) : text[i] = "S"

Names == SeqsUpTo(Chars, MaxName)

\* The SQL handed to a call: the caller's text, or a template of constants.py
\* with the literals substituted for its {} placeholders.
Text(text, s) == [template |-> "", args |-> <<>>, text |-> text, stmt |-> s]

Formatted(template, args) ==
    [template |-> template, args |-> args, text |-> <<>>, stmt |-> ""]

Call(fn, arg, result) == [fn |-> fn, arg |-> arg, result |-> result]

NoOutcome == [kind |-> "", exception |-> "", message |-> <<>>]

Return == [kind |-> "return", exception |-> "", message |-> <<>>]

Raise(exception, message) ==
    [kind |-> "raise", exception |-> exception, message |-> message]

FailedToExecuteMsg == "Failed to execute SQL statement: "

\* What a handler has done when it suspends or ends.
Step(cs, errors, out) == [calls |-> cs, ctxErrors |-> errors, outcome |-> out]

\* Mutant: the exception of check_for_suspicious_sql is swallowed.
execute_sql_try_swallowed(q, guard) ==
    Step(<<Call("check_for_suspicious_sql", q,
                IF guard.raised # "" THEN "raise" ELSE "accept"),
           Call("run_query", q, "invoked")>>,
         <<>>, NoOutcome)

\* Mutant: a guard match is reported and raised like a classifier rejection.
execute_sql_try_as_verdict(q, guard) ==
    IF guard.raised # ""
    THEN Step(<<Call("check_for_suspicious_sql", q, "raise")>>,
              << <<NotValidMsg, q.text>> >>,
              Raise("ValueError", <<NotValidMsg, q.text>>))
    ELSE Step(<<Call("check_for_suspicious_sql", q, "accept"),
                Call("run_query", q, "invoked")>>,
              <<>>, NoOutcome)

\* execute_sql_tool, the try block: check_for_suspicious_sql(sql), then
\* db.run_query(sql); an exception is reported and raised again.
execute_sql_try(q, guard) ==
    IF guard.raised # ""
    THEN Step(<<Call("check_for_suspicious_sql", q, "raise")>>,
              << <<FailedToExecuteMsg>> \o guard.message >>,
              Raise(guard.raised, guard.message))
    ELSE Step(<<Call("check_for_suspicious_sql", q, "accept"),
                Call("run_query", q, "invoked")>>,
              <<>>, NoOutcome)

After(call, step) == Step(<<call>> \o step.calls, step.ctxErrors, step.outcome)

\* Mutant: the guard is not called.
execute_sql_validated_no_guard(q, validated) ==
    IF validated.raised # ""
    THEN Step(<<Call("validate_sql", q, "raise")>>, <<>>, Raise(validated.raised, <<>>))
    ELSE IF ~validated.is_read_only
    THEN Step(<<Call("validate_sql", q, "reject")>>, <<validated.message>>,
              Raise("ValueError", validated.message))
    ELSE Step(<<Call("validate_sql", q, "accept"), Call("run_query", q, "invoked")>>,
              <<>>, NoOutcome)

\* Mutant: the guard is called before the verdict is looked at.
execute_sql_validated_guard_first(q, validated) ==
    IF validated.raised # ""
    THEN Step(<<Call("validate_sql", q, "raise")>>, <<>>, Raise(validated.raised, <<>>))
    ELSE IF check_for_suspicious_sql(q.text).raised # "" \/ validated.is_read_only
    THEN After(Call("validate_sql", q,
                    IF validated.is_read_only THEN "accept" ELSE "reject"),
               execute_sql_try(q, check_for_suspicious_sql(q.text)))
    ELSE Step(<<Call("validate_sql", q, "reject")>>, <<validated.message>>,
              Raise("ValueError", validated.message))

\* execute_sql_tool from the return of validate_sql(sql)
execute_sql_validated(q, validated) ==
    IF validated.raised # ""
    THEN Step(<<Call("validate_sql", q, "raise")>>, <<>>, Raise(validated.raised, <<>>))
    ELSE IF ~validated.is_read_only
    THEN Step(<<Call("validate_sql", q, "reject")>>, <<validated.message>>,
              Raise("ValueError", validated.message))
    ELSE After(Call("validate_sql", q, "accept"),
               execute_sql_try(q, check_for_suspicious_sql(q.text)))

\* server.execute_sql_tool from its first line to its first suspension or its
\* end: the calls made, the messages sent through ctx.error, and how it ends
\* (NoOutcome: suspended in await db.run_query).
execute_sql_tool(text, s) ==
    execute_sql_validated(Text(text, s), validate_sql(text, s))

Tools == {"execute_sql_tool", "list_databases", "list_schemas", "list_tables", "list_columns"}

CatalogArity(t) ==
    CASE t = "list_databases" -> 0
      [] t = "list_schemas"   -> 1
      [] t = "list_tables"    -> 2
      [] t = "list_columns"   -> 3
      [] OTHER                -> 0

CatalogTemplate(t) ==
    CASE t = "list_databases" -> "SVV_REDSHIFT_DATABASES_QUERY"
      [] t = "list_schemas"   -> "SVV_ALL_SCHEMAS_QUERY"
      [] t = "list_tables"    -> "SVV_ALL_TABLES_QUERY"
      [] t = "list_columns"   -> "SVV_ALL_COLUMNS_QUERY"

\* The query a catalog tool hands to db.run_query.
catalog_query(t, ns) ==
    Formatted(CatalogTemplate(t), [i \in 1..Len(ns) |-> quote_sql_literal(Str(ns[i])).text])

\* No call of a utils function on its own.
Pending == [raised |-> "pending", message |-> <<>>]

PureIdle == input = <<>> /\ output = Pending

\* No decorated function is in use.
CacheIdle ==
    /\ cache = <<>>
    /\ now = 0
    /\ computed = 0
    /\ callers = <<>>
    /\ refreshLog = <<>>

Tasks(running, waiting) == [running |-> running, waiting |-> waiting]

\* What a call gave its caller: an object, or an exception.
Got(kind, object) == [kind |-> kind, object |-> object]

\* The module db_utils as imported: no RedshiftDB, no executor.
DbInit ==
    /\ instance = 0
    /\ executor = 0
    /\ objects = 0
    /\ direct = 0
    /\ returned = Got("nothing", 0)
    /\ pool = Tasks(0, 0)
    /\ defaultPool = Tasks(0, 0)

Init ==
    /\ tool \in Tools
    /\ IF tool = "execute_sql_tool"
       THEN /\ sql \in SeqsUpTo(Lexemes, MaxLen)
            /\ stmt \in (IF hasStatement(sql) THEN Stmts ELSE {"Select"})
            /\ ~aliasPosition(sql, stmt)
            /\ names = <<>>
       ELSE /\ sql = <<>>
            /\ stmt = "Select"
            /\ names \in [1..CatalogArity(tool) -> Names]
    /\ pc = "start"
    /\ verdict = NoVerdict
    /\ calls = <<>>
    /\ ctxErrors = <<>>
    /\ outcome = NoOutcome
    /\ PureIdle
    /\ CacheIdle
    /\ DbInit

\* execute_sql_tool up to await db.run_query
ExecuteSqlTool ==
    /\ tool = "execute_sql_tool"
    /\ pc = "start"
    /\ \E r \in {execute_sql_tool(sql, stmt)} :
           /\ calls' = r.calls
           /\ ctxErrors' = r.ctxErrors
           /\ outcome' = r.outcome
           /\ pc' = IF r.outcome = NoOutcome THEN "awaiting" ELSE "done"
    /\ verdict' = validate_sql(sql, stmt)
    /\ UNCHANGED <<tool, sql, stmt, names>>
    /\ UNCHANGED <<pureVars, cacheVars, dbVars>>

\* list_database_tool up to await db.run_query
ListDatabases ==
    /\ tool = "list_databases"
    /\ pc = "start"
    /\ calls' = <<Call("run_query", catalog_query(tool, names), "invoked")>>
    /\ pc' = "awaiting"
    /\ UNCHANGED <<tool, sql, stmt, names, verdict, ctxErrors, outcome>>
    /\ UNCHANGED <<pureVars, cacheVars, dbVars>>

\* list_schemas_tool up to await db.run_query
ListSchemas ==
    /\ tool = "list_schemas"
    /\ pc = "start"
    /\ calls' = <<Call("run_query", catalog_query(tool, names), "invoked")>>
    /\ pc' = "awaiting"
    /\ UNCHANGED <<tool, sql, stmt, names, verdict, ctxErrors, outcome>>
    /\ UNCHANGED <<pureVars, cacheVars, dbVars>>

\* list_tables_tool up to await db.run_query
ListTables ==
    /\ tool = "list_tables"
    /\ pc = "start"
    /\ calls' = <<Call("run_query", catalog_query(tool, names), "invoked")>>
    /\ pc' = "awaiting"
    /\ UNCHANGED <<tool, sql, stmt, names, verdict, ctxErrors, outcome>>
    /\ UNCHANGED <<pureVars, cacheVars, dbVars>>

\* list_columns_tool up to await db.run_query
ListColumns ==
    /\ tool = "list_columns"
    /\ pc = "start"
    /\ calls' = <<Call("run_query", catalog_query(tool, names), "invoked")>>
    /\ pc' = "awaiting"
    /\ UNCHANGED <<tool, sql, stmt, names, verdict, ctxErrors, outcome>>
    /\ UNCHANGED <<pureVars, cacheVars, dbVars>>

\* db.run_query returns its rows: the tool returns its result.
QueryReturns ==
    /\ pc = "awaiting"
    /\ outcome' = Return
    /\ pc' = "done"
    /\ UNCHANGED <<tool, sql, stmt, names, verdict, calls, ctxErrors>>
    /\ UNCHANGED <<pureVars, cacheVars, dbVars>>

\* db.run_query raises: the tool's except block reports through ctx.error
\* and raises the exception again.
QueryFails ==
    /\ pc = "awaiting"
    /\ ctxErrors' = Append(ctxErrors,
            IF tool = "execute_sql_tool" THEN <<FailedToExecuteMsg, "db error">>
            ELSE <<"Failed to list", "db error">>)
    /\ outcome' = Raise("DBAPIError", <<"db error">>)
    /\ pc' = "done"
    /\ UNCHANGED <<tool, sql, stmt, names, verdict, calls>>
    /\ UNCHANGED <<pureVars, cacheVars, dbVars>>

Next ==
    \/ ExecuteSqlTool
    \/ ListDatabases
    \/ ListSchemas
    \/ ListTables
    \/ ListColumns
    \/ QueryReturns
    \/ QueryFails

Spec == Init /\ [][Next]_vars

-----------------------------------------------------------------------------
(* utils.check_for_suspicious_sql called on its own, on every short text.    *)

\* Longest text handed to check_for_suspicious_sql on its own.
MaxText == 5

GuardLexemes ==
    {"nl", "sp", "semi", "dd", "mo", "mc", "sl", "st", "END", "WORK", "S"}

\* No request is being served.
RequestIdle ==
    /\ tool = "none"
    /\ sql = <<>>
    /\ stmt = "Select"
    /\ names = <<>>
    /\ pc = "done"
    /\ verdict = NoVerdict
    /\ calls = <<>>
    /\ ctxErrors = <<>>
    /\ outcome = NoOutcome

GuardInit ==
    /\ RequestIdle
    /\ CacheIdle
    /\ DbInit
    /\ input \in SeqsUpTo(GuardLexemes, MaxText)
    /\ output = Pending

\* check_for_suspicious_sql(input)
CheckForSuspiciousSql ==
    /\ output = Pending
    /\ output' = check_for_suspicious_sql(input)
    /\ UNCHANGED <<requestVars, input, cacheVars, dbVars>>

GuardNext == CheckForSuspiciousSql

GuardSpec == GuardInit /\ [][GuardNext]_vars

-----------------------------------------------------------------------------
(* utils.quote_sql_literal called on its own, on values of every type.      *)

\* Longest str or bytes value handed to quote_sql_literal on its own.
MaxValue == 3

Kinds ==
    {"str", "bytes", "int", "float", "bool", "NoneType", "datetime", "date",
     "time", "list", "dict", "object"}

Values ==
    {Value(k, cs) : k \in {"str", "bytes"}, cs \in SeqsUpTo(Chars, MaxValue)}
    \cup {Value(k, <<"a">>) : k \in Kinds \ {"str", "bytes"}}

QuoteInit ==
    /\ RequestIdle
    /\ CacheIdle
    /\ DbInit
    /\ input \in Values
    /\ output = Pending

\* quote_sql_literal(input)
QuoteSqlLiteral ==
    /\ output = Pending
    /\ output' = quote_sql_literal(input)
    /\ UNCHANGED <<requestVars, input, cacheVars, dbVars>>

QuoteNext == QuoteSqlLiteral

QuoteSpec == QuoteInit /\ [][QuoteNext]_vars

-----------------------------------------------------------------------------
(* cache_utils.cached_with_force_refresh around an async function, as in    *)
(* tests/test_cache_utils.py: dummy_function(user_id, force_refresh=False)  *)
(* under ttl.  Callers are coroutines of one event loop: a call is          *)
(* suspended at each await and other calls run in between.  A value is      *)
(* <<n>>, the n-th result of the function, or None.                         *)

\* Invocations of the decorated function in one run.
MaxInvocations == 2

\* The last tick of the clock.
MaxTime == 2

\* ttl of the decorator, in ticks.
Ttl == 2

Callers == {"c1", "c2"}

UserIds == {1, 2}

None == <<>>

\* The keyword arguments of a call: none, or force_refresh given by keyword.
Kwargs == {{}, {<<"force_refresh", TRUE>>}, {<<"force_refresh", FALSE>>}}

\* kwargs.pop(force_arg_name, False): the value, and what is left.
popped(kwargs) == \E kw \in kwargs : kw[1] = "force_refresh" /\ kw[2]

without(kwargs) == {kw \in kwargs : kw[1] # "force_refresh"}

\* cached.get_cache_key(func, args, kwargs): built from args and the sorted
\* kwargs it is given.
get_cache_key(args, kwargs) == [args |-> args, kwargs |-> kwargs]

Keys == {get_cache_key(<<u>>, {}) : u \in UserIds}

Entry(value, expires) == [value |-> value, expires |-> expires]

Missing == Entry(None, 0)

\* cache.get(key): the value stored under key, None when there is none or
\* its ttl has passed.
get(key) ==
    IF key \in DOMAIN cache /\ now < cache[key].expires THEN cache[key].value
    ELSE None

IdleCaller ==
    [pc |-> "idle", args |-> <<>>, force |-> FALSE, key |-> get_cache_key(<<>>, {}),
     found |-> None, result |-> None, invoked |-> FALSE, seen |-> 0]

CacheInit ==
    /\ RequestIdle
    /\ PureIdle
    /\ cache = [k \in Keys |-> Missing]
    /\ now = 0
    /\ computed = 0
    /\ callers = [c \in Callers |-> IdleCaller]
    /\ refreshLog = [k \in Keys |-> <<>>]
    /\ DbInit

\* wrapper(*args, **kwargs) is called: force_refresh is popped; the call is
\* about to await cached_func (not forced) or func (forced).
WrapperCalled(c) ==
    /\ callers[c].pc \in {"idle", "returned"}
    /\ \E u \in UserIds, kwargs \in Kwargs :
           callers' = [callers EXCEPT ![c] =
               [pc |-> IF popped(kwargs) THEN "func" ELSE "get",
                args |-> <<u>>,
                force |-> popped(kwargs),
                key |-> get_cache_key(<<u>>, without(kwargs)),
                found |-> None,
                result |-> None,
                invoked |-> FALSE,
                seen |-> Len(refreshLog[get_cache_key(<<u>>, without(kwargs))])]]
    /\ UNCHANGED <<requestVars, pureVars, dbVars, cache, now, computed, refreshLog>>

\* cached: value = await get_from_cache(key); a value that is not None is
\* returned, otherwise the function is called.
GetFromCache(c) ==
    /\ callers[c].pc = "get"
    /\ callers' = [callers EXCEPT ![c].found = get(callers[c].key),
                                  ![c].result = get(callers[c].key),
                                  ![c].pc = IF get(callers[c].key) # None
                                            THEN "returned" ELSE "func"]
    /\ UNCHANGED <<requestVars, pureVars, dbVars, cache, now, computed, refreshLog>>

\* result = await func(*args, **kwargs): the function returns its next
\* value, or None.
FuncReturns(c) ==
    /\ callers[c].pc = "func"
    /\ computed < MaxInvocations
    /\ computed' = computed + 1
    /\ \E result \in {<<computed + 1>>, None} :
           callers' = [callers EXCEPT ![c].result = result,
                                      ![c].invoked = TRUE,
                                      ![c].pc = "set"]
    /\ UNCHANGED <<requestVars, pureVars, dbVars, cache, now, refreshLog>>

\* await cache.set(key, result, ttl), by cached (not forced) or by the
\* wrapper (forced); the call returns result.
CacheSet(c) ==
    /\ callers[c].pc = "set"
    /\ cache' = [cache EXCEPT ![callers[c].key] = Entry(callers[c].result, now + Ttl)]
    /\ refreshLog' =
           IF callers[c].force
           THEN [refreshLog EXCEPT ![callers[c].key] =
                    Append(@, [value |-> callers[c].result, at |-> now])]
           ELSE refreshLog
    /\ callers' = [callers EXCEPT ![c].pc = "returned"]
    /\ UNCHANGED <<requestVars, pureVars, dbVars, now, computed>>

\* Time passes.
Tick ==
    /\ now < MaxTime
    /\ now' = now + 1
    /\ UNCHANGED <<requestVars, pureVars, dbVars, cache, computed, callers, refreshLog>>

CacheNext ==
    \/ \E c \in Callers : WrapperCalled(c)
    \/ \E c \in Callers : GetFromCache(c)
    \/ \E c \in Callers : FuncReturns(c)
    \/ \E c \in Callers : CacheSet(c)
    \/ Tick

CacheSpec == CacheInit /\ [][CacheNext]_vars

-----------------------------------------------------------------------------
(* db_utils.RedshiftDB: the class attributes _instance and _executor, the   *)
(* objects constructed, and the queries handed to loop.run_in_executor.     *)

\* RedshiftDB objects constructed in one run.
MaxObjects == 2

\* Queries running or waiting on one executor at a time.
MaxQueries == 5

\* ThreadPoolExecutor(max_workers=3)
PoolWorkers == 3

\* Workers of the event loop's default executor, min(32, cpus + 4).
DefaultWorkers == 5

DbSpecInit ==
    /\ RequestIdle
    /\ PureIdle
    /\ CacheIdle
    /\ DbInit

\* RedshiftDB.__init__ from the check of _instance: the executor is created
\* when there is none.
created(e) == IF e = 0 THEN 1 ELSE e

\* RedshiftDB(engine, host), called directly.
Construct ==
    /\ IF instance # 0
       THEN /\ returned' = Got("RuntimeError", 0)
            /\ UNCHANGED <<objects, direct, executor>>
       ELSE /\ objects < MaxObjects
            /\ objects' = objects + 1
            /\ direct' = direct + 1
            /\ executor' = created(executor)
            /\ returned' = Got("object", objects + 1)
    /\ UNCHANGED <<requestVars, pureVars, cacheVars, instance, pool, defaultPool>>

\* RedshiftDB.connect()
Connect ==
    /\ IF instance # 0
       THEN /\ returned' = Got("object", instance)
            /\ UNCHANGED <<instance, objects, executor>>
       ELSE /\ objects < MaxObjects
            /\ objects' = objects + 1
            /\ executor' = created(executor)
            /\ instance' = objects + 1
            /\ returned' = Got("object", objects + 1)
    /\ UNCHANGED <<requestVars, pureVars, cacheVars, direct, pool, defaultPool>>

\* disconnect() on any object: engine.dispose(); the executor, when there is
\* one, is shut down (its queries run to their end first) and _executor is
\* None.  _instance is left as it is.
Disconnect ==
    /\ objects > 0
    /\ IF executor # 0
       THEN pool' = Tasks(0, 0) /\ executor' = 0
       ELSE UNCHANGED <<pool, executor>>
    /\ UNCHANGED <<requestVars, pureVars, cacheVars, instance, objects, direct,
                   returned, defaultPool>>

\* An executor takes a task: a free worker runs it, else it waits.
submit(tasks, workers) ==
    IF tasks.running < workers
    THEN Tasks(tasks.running + 1, tasks.waiting)
    ELSE Tasks(tasks.running, tasks.waiting + 1)

\* A worker ends its task and takes the next waiting one.
finish(tasks) ==
    IF tasks.waiting > 0
    THEN Tasks(tasks.running, tasks.waiting - 1)
    ELSE Tasks(tasks.running - 1, 0)

\* run_query(sql) on any object: loop.run_in_executor(self._executor, ...);
\* with None for an executor the loop uses its default executor.
RunQuery ==
    /\ objects > 0
    /\ IF executor # 0
       THEN /\ pool.running + pool.waiting < MaxQueries
            /\ pool' = submit(pool, PoolWorkers)
            /\ UNCHANGED defaultPool
       ELSE /\ defaultPool.running + defaultPool.waiting < MaxQueries
            /\ defaultPool' = submit(defaultPool, DefaultWorkers)
            /\ UNCHANGED pool
    /\ UNCHANGED <<requestVars, pureVars, cacheVars, instance, executor, objects,
                   direct, returned>>

\* _run_query_sync returns on a worker of RedshiftDB._executor.
PoolQueryEnds ==
    /\ pool.running > 0
    /\ pool' = finish(pool)
    /\ UNCHANGED <<requestVars, pureVars, cacheVars, instance, executor, objects,
                   direct, returned, defaultPool>>

\* _run_query_sync returns on a worker of the default executor.
DefaultQueryEnds ==
    /\ defaultPool.running > 0
    /\ defaultPool' = finish(defaultPool)
    /\ UNCHANGED <<requestVars, pureVars, cacheVars, instance, executor, objects,
                   direct, returned, pool>>

DbNext ==
    \/ Construct
    \/ Connect
    \/ Disconnect
    \/ RunQuery
    \/ PoolQueryEnds
    \/ DefaultQueryEnds

DbSpec == DbSpecInit /\ [][DbNext]_vars

-----------------------------------------------------------------------------
(* Properties.                                                              *)

Executing == tool = "execute_sql_tool" /\ pc # "start"

isCall(i, fn) == calls[i].fn = fn

\* Both gates accepted the argument of call i in earlier calls.
gatedBefore(i) ==
    /\ \E j \in 1..(i - 1) : calls[j] = Call("validate_sql", calls[i].arg, "accept")
    /\ \E k \in 1..(i - 1) :
           calls[k] = Call("check_for_suspicious_sql", calls[i].arg, "accept")

rejectedByAGate ==
    \E j \in 1..Len(calls) :
        /\ calls[j].fn \in {"validate_sql", "check_for_suspicious_sql"}
        /\ calls[j].result # "accept"

runQueryInvoked == \E i \in 1..Len(calls) : isCall(i, "run_query")

\* C1: in execute_sql_tool, run_query is invoked only after validate_sql
\* returned is_read_only = true and check_for_suspicious_sql returned without
\* raising, both on the sql handed to run_query; when either gate rejects,
\* run_query is not invoked for that request.
C1_GatesBeforeRunQuery ==
    tool = "execute_sql_tool" =>
        /\ \A i \in 1..Len(calls) :
               isCall(i, "run_query") =>
                   /\ gatedBefore(i)
                   /\ calls[i].arg = Text(sql, stmt)
                   /\ validate_sql(sql, stmt).is_read_only
                   /\ ~SUSPICIOUS_QUERY_REGEXP(sql)
        /\ rejectedByAGate => ~runQueryInvoked

C1_Witness ==
    /\ tool = "execute_sql_tool"
    /\ pc = "awaiting"
    /\ hasStatement(sql)
    /\ runQueryInvoked

\* C2 as claimed: every SQL text handed to run_query by any tool, the catalog
\* tools included, has passed validate_sql and check_for_suspicious_sql.
C2_EveryToolGated ==
    \A i \in 1..Len(calls) : isCall(i, "run_query") => gatedBefore(i)

\* C2: every SQL text execute_sql_tool hands to run_query has passed both
\* gates; list_databases, list_schemas, list_tables and list_columns hand the
\* query formatted from their template to run_query and call neither gate.
C2_OnlyExecuteSqlGated ==
    /\ tool = "execute_sql_tool" =>
           \A i \in 1..Len(calls) : isCall(i, "run_query") => gatedBefore(i)
    /\ tool # "execute_sql_tool" /\ pc # "start" =>
           calls = <<Call("run_query", catalog_query(tool, names), "invoked")>>

C2_Witness ==
    /\ tool = "list_schemas"
    /\ pc = "awaiting"
    /\ names = << <<"q">> >>
    /\ calls[1].arg.args = << <<"q", "q", "q", "q">> >>

guardCalled == \E i \in 1..Len(calls) : isCall(i, "check_for_suspicious_sql")

classifierCalled == \E i \in 1..Len(calls) : isCall(i, "validate_sql")

\* C3 as claimed: for every request both gates are evaluated, the guard even
\* when validate_sql rejects.
C3_BothGatesEvaluated ==
    Executing => classifierCalled /\ guardCalled

\* C3: validate_sql is evaluated first on every request; the guard is
\* evaluated exactly when validate_sql accepted (a rejection or an exception
\* of validate_sql ends the request before the guard); a reject from either
\* one alone denies execution.
C3_GuardOnlyAfterAccept ==
    Executing =>
        /\ isCall(1, "validate_sql")
        /\ guardCalled <=> (verdict.raised = "" /\ verdict.is_read_only)
        /\ guardCalled => calls[2] = Call("check_for_suspicious_sql", Text(sql, stmt),
                                          IF SUSPICIOUS_QUERY_REGEXP(sql) THEN "raise"
                                          ELSE "accept")
        /\ SUSPICIOUS_QUERY_REGEXP(sql) => ~runQueryInvoked
        /\ ~verdict.is_read_only => ~runQueryInvoked

C3_Witness ==
    /\ Executing
    /\ verdict.is_read_only
    /\ Len(calls) = 2
    /\ calls[2].result = "raise"
    /\ outcome.exception = "Exception"

\* The request's sql parses to exactly one statement.
oneStatement ==
    /\ strip(sql) # <<>>
    /\ ~parseRaises(sql, stmt)
    /\ Len(parse(sql, stmt)) = 1
    /\ parse(sql, stmt)[1] # NoneNode

theStatement == parse(sql, stmt)[1]

\* Some CTE or Subquery at or below node n has a body that is neither a
\* Select nor a Values.
RECURSIVE writeBodyBelow(_)
writeBodyBelow(n) ==
    \/ n.type \in {"CTE", "Subquery"} /\ n.kids[1].type \notin {"Select", "Values"}
    \/ \E i \in 1..Len(n.kids) : writeBodyBelow(n.kids[i])

AllowedVerbs == {"EXPLAIN", "explain", "eXpLaIn", "Explain", "SHOW", "show", "Show"}

allowedTop(n) ==
    \/ n.type = "Select"
    \/ n.type = "Describe"
    \/ n.type = "Command" /\ n.verb \in AllowedVerbs

\* C4: a single parsed statement with a CTE or Subquery, at any depth, whose
\* body is neither a Select nor a Values is rejected with is_read_only =
\* false, also when the top-level statement is a Select.
C4_NestedWriteRejected ==
    Executing /\ oneStatement /\ writeBodyBelow(theStatement) =>
        verdict.raised = "" /\ ~verdict.is_read_only

C4_Witness ==
    /\ Executing
    /\ oneStatement
    /\ stmt = "SelectCteCteDelete"
    /\ theStatement.type = "Select"
    /\ ~verdict.is_read_only

\* C5: a single parsed statement whose top-level kind is not Select, not
\* Describe and not a Command EXPLAIN or SHOW (any letter case) gets
\* is_read_only = false and the 'Not a valid SQL statement ...' message
\* followed by the caller's sql, unmodified.
C5_TopLevelRejected ==
    Executing /\ oneStatement /\ ~allowedTop(theStatement) =>
        verdict = Returned(FALSE, <<NotValidMsg, sql>>)

C5_Witness ==
    /\ Executing
    /\ oneStatement
    /\ stmt = "Delete"
    /\ sql[1] = "nl"
    /\ verdict.message = <<NotValidMsg, sql>>

\* C6: a non-blank sql that parses to exactly one statement whose top-level
\* kind is Select, Describe or Command EXPLAIN|SHOW (any letter case), with no
\* CTE or Subquery whose body is other than Select or Values, is accepted
\* with the message 'This is a read-only SQL statement.'.
C6_ReadOnlyAccepted ==
    Executing /\ oneStatement /\ allowedTop(theStatement)
              /\ ~writeBodyBelow(theStatement) =>
        verdict = Returned(TRUE, ReadOnlyMsg)

C6_Witness ==
    /\ Executing
    /\ oneStatement
    /\ stmt = "explain"
    /\ verdict = Returned(TRUE, ReadOnlyMsg)

\* C7: a sql whose parse yields more than one top-level statement gets
\* is_read_only = false and exactly 'Only one SQL statement is allowed at a
\* time.', whether or not each statement is read-only.
C7_MultiStatementRejected ==
    Executing /\ ~parseRaises(sql, stmt) /\ Len(parse(sql, stmt)) > 1 =>
        verdict = Returned(FALSE, OnlyOneMsg)

C7_Witness ==
    /\ Executing
    /\ sql = <<"S", "semi", "S">>
    /\ stmt = "Delete"
    /\ verdict = Returned(FALSE, OnlyOneMsg)

\* C8: an empty or whitespace-only sql gets is_read_only = false and exactly
\* 'SQL statement cannot be empty or whitespace.', and no other message.
C8_BlankRejected ==
    Executing /\ (\A i \in 1..Len(sql) : sql[i] \in Whitespace) =>
        verdict = Returned(FALSE, EmptyMsg)

C8_Witness ==
    /\ Executing
    /\ sql = <<"nl", "nl">>
    /\ verdict = Returned(FALSE, EmptyMsg)

\* C9 as claimed: validate_sql returns a verdict for every input and never
\* ends by raising; a text that does not parse gets the 'Not a valid SQL
\* statement ...' rejection.
C9_NeverRaises ==
    Executing =>
        /\ verdict.raised = ""
        /\ parseRaises(sql, stmt) /\ strip(sql) # <<>> =>
               verdict = Returned(FALSE, <<NotValidMsg, sql>>)

\* The text without its comments: a single-line comment up to its line
\* break, a closed multi-line comment with what it encloses.
RECURSIVE uncomment(_, _)
uncomment(text, i) ==
    IF i > Len(text) THEN <<>>
    ELSE IF text[i] = "dd" THEN uncomment(text, lineEnd(text, i))
    ELSE IF text[i] = "mo" /\ commentClose(text, i + 1, 1) # 0
         THEN uncomment(text, commentClose(text, i + 1, 1) + 1)
    ELSE <<text[i]>> \o uncomment(text, i + 1)

\* C10 as claimed: removing the comments of a sql, a comment after the
\* terminating semicolon included, leaves validate_sql's is_read_only as it
\* was.
C10_CommentsIgnored ==
    Executing /\ verdict.raised = ""
              /\ validate_sql(uncomment(sql, 1), stmt).raised = "" =>
        verdict.is_read_only = validate_sql(uncomment(sql, 1), stmt).is_read_only

-----------------------------------------------------------------------------
(* Properties of check_for_suspicious_sql.  The sequence the guard is to    *)
(* find, read independently of the pattern: comments by counting depth,     *)
(* statement boundaries at the start of the text and after a semicolon.     *)

\* The position after the */ that brings the depth of the comment entered
\* before position j back to 0, or 0 when the text ends first.
RECURSIVE balancedEnd(_, _, _)
balancedEnd(c, j, depth) ==
    IF j > Len(c) THEN 0
    ELSE IF pairAt(c, j, "sl", "st") THEN balancedEnd(c, j + 2, depth + 1)
    ELSE IF pairAt(c, j, "st", "sl")
         THEN IF depth = 1 THEN j + 2 ELSE balancedEnd(c, j + 2, depth - 1)
    ELSE balancedEnd(c, j + 1, depth)

balancedComment(c, i) ==
    IF pairAt(c, i, "sl", "st") THEN balancedEnd(c, i + 2, 1) ELSE 0

\* The position after the separator at position i, or 0 when none is there.
separatorEnd(c, i) ==
    IF i > Len(c) THEN 0
    ELSE IF c[i] \in {"nl", "sp", "semi"} THEN i + 1
    ELSE IF c[i] = "dd" THEN lineEnd(c, i)
    ELSE balancedComment(c, i)

RECURSIVE separatorsFrom(_, _)
RECURSIVE separatorsNext(_, _, _)
separatorsFrom(c, i) == separatorsNext(c, i, separatorEnd(c, i))

separatorsNext(c, i, next) ==
    IF next = 0 THEN {i} ELSE {i} \cup separatorsFrom(c, next)

statementBoundaries(c) ==
    {1} \cup {i + 1 : i \in {k \in 1..Len(c) : c[k] = "semi"}}

closedBySemicolon(c, i) == \E r \in separatorsFrom(c, i) : lexemeAt(c, r, "semi")

escapeSequence(c) ==
    \E b \in statementBoundaries(c) : \E p \in separatorsFrom(c, b) :
        /\ lexemeAt(c, p, "END")
        /\ \/ closedBySemicolon(c, p + 1)
           \/ \E w \in separatorsFrom(c, p + 1) \ {p + 1} :
                 lexemeAt(c, w, "WORK") /\ closedBySemicolon(c, w + 1)

GuardApplied == output # Pending

\* C11 as claimed: check_for_suspicious_sql raises for every text with a
\* statement boundary, separators, END|COMMIT|ROLLBACK|ABORT, optionally
\* separators and WORK|TRANSACTION, separators and a semicolon, and returns
\* True for every text without such a sequence.
C11_FlagsExactlyTheSequence ==
    GuardApplied =>
        (output.raised = "Exception" <=> escapeSequence(chars(input)))

noCommentCharacter(c) == \A i \in 1..Len(c) : c[i] \notin {"sl", "st", "dd"}

\* C12 as claimed: the guard matches only at the start of the whole text or
\* just after a semicolon; a keyword and its semicolon at the start of a later
\* line of the same statement do not signal suspicious.
C12_OnlyAtStatementBoundary ==
    GuardApplied /\ noCommentCharacter(chars(input)) /\ output.raised # "" =>
        escapeSequence(chars(input))

\* C13 as claimed: the pattern consumes a multi-line comment as a separator
\* only when it is balanced, nesting included: whatever the sub-pattern
\* matches, at any place it is used, is one comment from its /* to the */
\* that balances it.
C13_OnlyBalancedComments ==
    GuardApplied =>
        \A i \in 1..Len(chars(input)) :
            \A j \in re_mlc(chars(input), i) : j = balancedComment(chars(input), i)

-----------------------------------------------------------------------------
(* Properties of quote_sql_literal.  A literal is read back by the rules of *)
(* the target database: it opens with a quote, '' is a quote, a backslash   *)
(* takes the next character as it is, and the first single quote on its own *)
(* closes it.                                                               *)

Read(closed, cs) == [closed |-> closed, chars |-> cs]

\* Reads text from position i inside the literal; cs is what was read so far.
\* closed: the literal closes exactly at the end of the text.
RECURSIVE readFrom(_, _, _)
readFrom(text, i, cs) ==
    IF i > Len(text) THEN Read(FALSE, cs)
    ELSE IF text[i] = "q"
         THEN IF i < Len(text) /\ text[i + 1] = "q"
              THEN readFrom(text, i + 2, Append(cs, "q"))
              ELSE Read(i = Len(text), cs)
    ELSE IF text[i] = "b"
         THEN IF i < Len(text)
              THEN readFrom(text, i + 2, Append(cs, text[i + 1]))
              ELSE Read(FALSE, cs)
    ELSE readFrom(text, i + 1, Append(cs, text[i]))

readLiteral(text) ==
    IF text = <<>> \/ text[1] # "q" THEN Read(FALSE, <<>>)
    ELSE readFrom(text, 2, <<>>)

QuoteApplied == output # Pending

\* C14 as claimed: for every string s, quote_sql_literal(s) is one
\* single-quote-delimited literal that its content cannot close early, and
\* reading the literal back yields exactly s.
C14_RoundTrip ==
    QuoteApplied /\ input.kind = "str" =>
        /\ output.raised = ""
        /\ readLiteral(output.text) = Read(TRUE, input.chars)

-----------------------------------------------------------------------------
(* Properties of cached_with_force_refresh.                                 *)

\* The values force-refreshed under the key of caller c from the latest one
\* it could see when it was called.
refreshedSince(c) ==
    {refreshLog[callers[c].key][i].value :
        i \in callers[c].seen..Len(refreshLog[callers[c].key])}

\* When caller c was called a force-refreshed value that is not None was
\* stored under its key, and its ttl has not passed.
refreshedWithinTtl(c) ==
    /\ callers[c].seen > 0
    /\ refreshLog[callers[c].key][callers[c].seen].value # None
    /\ now < refreshLog[callers[c].key][callers[c].seen].at + Ttl

\* C16 as claimed: within the ttl, a call without force_refresh returns the
\* stored value without invoking the function if an entry exists; a call
\* with force_refresh=True always invokes the function and stores its result
\* under the key of the non-forced calls; every later non-forced call returns
\* the most recently force-refreshed value.
C16_ForceRefreshWins ==
    \A c \in Callers :
        callers[c].pc = "returned" =>
            /\ callers[c].key = get_cache_key(callers[c].args, {})
            /\ callers[c].force => callers[c].invoked
            /\ ~callers[c].force /\ callers[c].found # None =>
                   ~callers[c].invoked /\ callers[c].result = callers[c].found
            /\ ~callers[c].force /\ refreshedWithinTtl(c) =>
                   callers[c].result \in refreshedSince(c)

-----------------------------------------------------------------------------
(* Properties of execute_sql_tool's rejections.                             *)

classifierRejected == verdict.raised = "" /\ ~verdict.is_read_only

guardMatched ==
    \E i \in 1..Len(calls) :
        isCall(i, "check_for_suspicious_sql") /\ calls[i].result = "raise"

ClassifierMessages == {EmptyMsg, OnlyOneMsg, ReadOnlyMsg, <<NotValidMsg, sql>>}

\* C17: in execute_sql_tool a classifier rejection is reported through
\* ctx.error with exactly the verdict message and raised as ValueError with
\* that message; a guard match is raised as another exception with the
\* message 'SQL contains suspicious patterns, execution rejected: {sql}' and
\* is neither raised nor reported as a classifier verdict; in both cases the
\* request has ended, without a result, without run_query, and no gate was
\* called a second time.
C17_RejectionsFatalAndDistinct ==
    Executing =>
        /\ classifierRejected =>
               /\ ctxErrors = <<verdict.message>>
               /\ outcome = Raise("ValueError", verdict.message)
               /\ calls = <<Call("validate_sql", Text(sql, stmt), "reject")>>
        /\ guardMatched =>
               /\ outcome = Raise("Exception", <<SuspiciousMsg, sql>>)
               /\ outcome.exception # "ValueError"
               /\ outcome.message \notin ClassifierMessages
               /\ ctxErrors = << <<FailedToExecuteMsg, SuspiciousMsg, sql>> >>
               /\ ctxErrors[1] \notin ClassifierMessages
               /\ calls = <<Call("validate_sql", Text(sql, stmt), "accept"),
                            Call("check_for_suspicious_sql", Text(sql, stmt), "raise")>>
        /\ classifierRejected \/ guardMatched =>
               /\ pc = "done"
               /\ outcome.kind = "raise"
               /\ ~runQueryInvoked

C17_Witness ==
    /\ Executing
    /\ guardMatched
    /\ stmt = "SHOW"
    /\ outcome = Raise("Exception", <<SuspiciousMsg, sql>>)
    /\ Len(ctxErrors) = 1

-----------------------------------------------------------------------------
(* Properties of RedshiftDB.                                                *)

\* C18 as claimed: after any sequence of connect(), disconnect() and
\* run_query() calls at most one RedshiftDB exists, connect() always returns
\* it, a direct construction raises RuntimeError once it exists, and every
\* query runs on the dedicated pool of 3 workers, so at most 3 run at a
\* time, also after a disconnect().
C18_SingletonAndBoundedPool ==
    direct = 0 =>
        /\ objects <= 1
        /\ instance # 0 =>
               returned \in {Got("object", instance), Got("RuntimeError", 0)}
        /\ defaultPool = Tasks(0, 0)
        /\ pool.running + defaultPool.running <= 3

====
